---- MODULE Spec2Model ----
(***************************************************************************)
(* Model of the AIS stream server (jeanwick/websocket-ais-streamv2).       *)
(*                                                                         *)
(* The repository holds several variants of one Node.js program.  Each     *)
(* variant is a specification of this module over the same variables:     *)
(*   SpecStream  src/index.js                 blob-storage variant         *)
(*   SpecBox     src/unnamed/part_000:241-336 bounding-box variant         *)
(*   SpecDb      src/unnamed/part_001:1-300   postgres variant             *)
(*   SpecFilter  src/unnamed/part_000:1-240   in-memory filter variant     *)
(*   SpecFile    src/unnamed/part_001:301-439 file variant                 *)
(*                                                                         *)
(* Node runs every handler to completion on one thread, so one action is   *)
(* one handler run (or the part of an async function between two awaits).  *)
(* The environment (the upstream server, the network, the storage          *)
(* service, the HTTP clients, the timers) chooses which event comes next.  *)
(***************************************************************************)
EXTENDS Integers, Sequences, FiniteSets, Bags, TLC

\* ---------------------------------------------------------------- bounds
MaxHandles == 3     \* WebSocket objects that exist at the same time
MaxMsgs    == 2     \* position reports ingested in one run
MaxClock   == 2     \* wall clock readings 0..MaxClock, in days
MaxQueries == 1     \* GET /api/ships requests in one run
MaxUpdates == 1     \* POST /api/update-bounding-box requests in one run
MaxFlushes == 2     \* batches that flushShipDataCache sends in one run
MaxPage    == 3     \* page parameters 1..MaxPage
MaxLimit   == 2     \* limit parameters 1..MaxLimit
MaxSweeps  == 1     \* DELETEs of deleteOldRecords awaited at the same time

\* ------------------------------------------------------------ value sets
NoHandle == 0                       \* let ws = null
Handles  == 1..MaxHandles
Absent   == -1                      \* JS undefined / a missing JSON key
MMSIs    == {111, 222}               \* MMSI_String, by its digits
Clock    == 0..MaxClock

\* Upstream messages.  kind "report" is a PositionReport with MetaData;
\* Sog and Cog may be missing.  The other kinds carry no payload.
Report(m, la, lo, s, c, t) ==
  [kind |-> "report", mmsi |-> m, lat |-> la, lon |-> lo, sog |-> s,
   cog |-> c, time |-> t]

\* A full report of day 0, and of day 1 a report without Sog and Cog, one
\* without Sog only, and one with Sog 0.
Reports ==
  {Report(m, 10, 20, 5, 90, 0) : m \in MMSIs} \cup
  {Report(111, 11, 21, Absent, Absent, 1), Report(111, 11, 21, Absent, 45, 1),
   Report(222, 11, 21, 0, 90, 1)}

Blank(k) ==
  [kind |-> k, mmsi |-> Absent, lat |-> Absent, lon |-> Absent,
   sog |-> Absent, cog |-> Absent, time |-> Absent]

\* "garbage": text that is not JSON.  "other": JSON without
\* Message.PositionReport.  "nometa": a PositionReport without MetaData.
Messages == Reports \cup {Blank("garbage"), Blank("other"), Blank("nometa")}

VARIABLES
  proc,             \* the Node process: "init", "initializing", "running",
                    \* "crashed" (ended by an exception or exit(1)), "exited"
  ws,               \* let ws: the current WebSocket handle or NoHandle
  hstate,           \* handle -> state of that WebSocket object
  timers,           \* number of pending setTimeout(connectAISStream, 1000)
  connectionState,  \* [isConnected, lastConnectionTimestamp]
  currentBoundingBox,
  sent,             \* handle -> the handshakes sent on it (a sequence)
  shipsData,        \* let shipsData: sequence of ship records
  blob,             \* shipsData.json in blob storage: NoBlob or a sequence
  puts,             \* bag of PUT bodies in flight
  loads,            \* bag of loadShipsData calls awaiting their fetch
  resp,             \* the HTTP response the latest step sent, else NoResp
  now,              \* wall clock
  msgs,             \* position reports ingested so far
  queries,          \* GET /api/ships requests so far
  updates,          \* POST /api/update-bounding-box requests so far
  shipDataCache,    \* const shipDataCache = new Map(), in insertion order
  db,               \* the rows of table ships
  flushes,          \* bag of batches whose INSERT is awaited
  selects,          \* bag of SELECTs that GET /api/ships awaits
  sweeps,           \* bag of DELETEs that deleteOldRecords awaits
  batches           \* batches sent so far

vars == <<proc, ws, hstate, timers, connectionState, currentBoundingBox, sent,
          shipsData, blob, puts, loads, resp, now, msgs, queries, updates,
          shipDataCache, db, flushes, selects, sweeps, batches>>

dbVars == <<shipDataCache, db, flushes, selects, sweeps, batches>>

connVars  == <<ws, hstate, timers, connectionState, currentBoundingBox, sent>>
storeVars == <<blob, puts, loads>>

\* shipsData.json in the blob store
NoBlob      == [exists |-> FALSE, data |-> <<>>]
BlobOf(s)   == [exists |-> TRUE, data |-> s]
NoTimestamp == <<"null">>           \* lastConnectionTimestamp: null
NoMessage   == <<"none">>           \* a response without a message key
NoResp ==
  [status |-> 0, message |-> NoMessage, data |-> <<>>, isConnected |-> FALSE,
   lastConnectionTimestamp |-> NoTimestamp, totalResults |-> Absent,
   currentPage |-> Absent, totalPages |-> Absent]

\* ------------------------------------------------------- WebSocket (ws)
\* readyState of a handle, split by how it got there:
\*   "free"        no such object (not created yet, or closed and no longer
\*                 referred to by ws)
\*   "connecting"  CONNECTING
\*   "open"        OPEN
\*   "closing"     CLOSING after close() on an OPEN socket: the close frame
\*                 is sent, the receiver keeps emitting 'message' until the
\*                 peer's close frame arrives
\*   "aborting"    CLOSING after close() on a CONNECTING socket: the
\*                 handshake is aborted, 'error' and 'close' follow
\*   "errored"     'error' was emitted, 'close' follows
\*   "closed"      CLOSED, 'close' was emitted, still referred to by ws
HStates == {"free", "connecting", "open", "closing", "aborting", "errored", "closed"}

\* ws.close()
CloseHandle(hs, h) ==
  IF h = NoHandle THEN hs
  ELSE IF hs[h] = "connecting" THEN [hs EXCEPT ![h] = "aborting"]
  ELSE IF hs[h] = "open" THEN [hs EXCEPT ![h] = "closing"]
  ELSE hs

\* ws = new WebSocket(...) drops the reference to the old object; a closed
\* object that is no longer referred to is gone.
DropClosed(hs, h) ==
  IF h # NoHandle /\ hs[h] = "closed" THEN [hs EXCEPT ![h] = "free"] ELSE hs

\* The slot of the object that new WebSocket(...) creates.
FreeHandles(hs) == {h \in Handles : hs[h] = "free"}

NewHandle(hs) == CHOOSE h \in FreeHandles(hs) : \A g \in FreeHandles(hs) : h <= g

\* Handles whose onmessage handler can still run.
Delivering == {h \in Handles : hstate[h] \in {"open", "closing"}}

\* ---------------------------------------------------------- src/index.js
\* function connectAISStream(): close the current handle, create a new one
\* and attach the four handlers to it.
connectAISStream ==
  LET hs == DropClosed(CloseHandle(hstate, ws), ws) IN
  /\ FreeHandles(hs) # {}
  /\ hstate' = [hs EXCEPT ![NewHandle(hs)] = "connecting"]
  /\ ws' = NewHandle(hs)
  /\ sent' = [sent EXCEPT ![NewHandle(hs)] = <<>>]

\* x || 0
OrZero(x) == IF x = Absent \/ x = 0 THEN 0 ELSE x

\* const shipData = {...} built from a decoded position report
ShipDataOf(msg) ==
  [mmsi |-> msg.mmsi, lat |-> msg.lat, lon |-> msg.lon,
   speed |-> OrZero(msg.sog), course |-> OrZero(msg.cog),
   timestamp |-> msg.time]

\* shipsData.findIndex(ship => ship.mmsi === m); 0 stands for -1
FindIndex(s, m) ==
  IF \E i \in 1..Len(s) : s[i].mmsi = m
  THEN CHOOSE i \in 1..Len(s) :
         s[i].mmsi = m /\ \A j \in 1..(i - 1) : s[j].mmsi # m
  ELSE 0

\* Spread that keeps record a when b carries an older timestamp.
SpreadNewerWins(a, b) ==
  IF /\ "timestamp" \in (DOMAIN a) \cap (DOMAIN b)
     /\ b.timestamp < a.timestamp
  THEN a
  ELSE [k \in (DOMAIN a) \cup (DOMAIN b) |-> IF k \in DOMAIN b THEN b[k] ELSE a[k]]

\* { ...a, ...b }
Spread(a, b) ==
  [k \in (DOMAIN a) \cup (DOMAIN b) |-> IF k \in DOMAIN b THEN b[k] ELSE a[k]]

\* Upsert with the findIndex test lost: every report is pushed.
UpsertPush(s, rec) == Append(s, rec)

\* the update-or-push of ws.onmessage
Upsert(s, rec) ==
  IF FindIndex(s, rec.mmsi) # 0
  THEN [s EXCEPT ![FindIndex(s, rec.mmsi)] = Spread(s[FindIndex(s, rec.mmsi)], rec)]
  ELSE Append(s, rec)

\* JSON.parse(message.data.toString()) or a dereference in the handler throws
Throws(msg) == msg.kind \in {"garbage", "nometa"}

\* JSON.stringify(shipsData) followed by JSON.parse: a key whose value is
\* undefined is not written, every other value of a ship record survives.
JSONStringify(s) ==
  [i \in 1..Len(s) |-> [k \in {f \in DOMAIN s[i] : s[i][f] # Absent} |-> s[i][k]]]

\* new Date().toISOString()
ToISOString(t) == <<"ISO", t>>

\* A pending fetch of loadShipsData: who awaits it and what the storage
\* service answered ("sent" while it has not answered yet).
Load(origin, res, data) == [origin |-> origin, res |-> res, data |-> data]

\* The body of GET /api/ships after the optional reload.
ShipsResponse ==
  [NoResp EXCEPT
     !.status = 200,
     !.message = IF connectionState.isConnected THEN NoMessage
                 ELSE connectionState.lastConnectionTimestamp,
     !.data = shipsData,
     !.isConnected = connectionState.isConnected,
     !.lastConnectionTimestamp = connectionState.lastConnectionTimestamp]

Init ==
  /\ proc = "init"
  /\ ws = NoHandle
  /\ hstate = [h \in Handles |-> "free"]
  /\ timers = 0
  /\ connectionState = [isConnected |-> FALSE, lastConnectionTimestamp |-> NoTimestamp]
  /\ currentBoundingBox = "default"
  /\ sent = [h \in Handles |-> <<>>]
  /\ shipsData = <<>>
  /\ blob \in {NoBlob,
               BlobOf(<<[mmsi |-> 111, lat |-> 10, lon |-> 20, speed |-> 5,
                         course |-> 90, timestamp |-> 0]>>)}
  /\ puts = EmptyBag
  /\ loads = EmptyBag
  /\ resp = NoResp
  /\ now = 0
  /\ msgs = 0
  /\ queries = 0
  /\ updates = 0
  /\ shipDataCache = <<>>
  /\ db = {}
  /\ flushes = EmptyBag
  /\ selects = EmptyBag
  /\ sweeps = EmptyBag
  /\ batches = 0

\* Module top level: loadShipsData() is called (its fetch is pending) and
\* connectAISStream() runs once.
Startup ==
  /\ proc = "init"
  /\ proc' = "running"
  /\ loads' = loads (+) SetToBag({Load("startup", "sent", <<>>)})
  /\ connectAISStream
  /\ resp' = NoResp
  /\ UNCHANGED <<timers, connectionState, currentBoundingBox, shipsData, blob,
                 puts, now, msgs, queries, updates, dbVars>>

\* const subscriptionMessage = {...} (without the API key)
SubscriptionMessage ==
  [BoundingBoxes |-> currentBoundingBox, FilterMessageTypes |-> "PositionReport"]

\* OnOpen without the ws.send(JSON.stringify(subscriptionMessage)).
OnOpenNoHandshake(h) ==
  /\ proc = "running"
  /\ hstate[h] = "connecting"
  /\ \E t \in Clock :
       /\ t >= now
       /\ now' = t
       /\ connectionState' = [isConnected |-> TRUE,
                              lastConnectionTimestamp |-> ToISOString(t)]
  /\ hstate' = [hstate EXCEPT ![h] = "open"]
  /\ resp' = NoResp
  /\ UNCHANGED <<proc, ws, timers, currentBoundingBox, sent, shipsData, blob,
                 puts, loads, msgs, queries, updates, dbVars>>

\* ws.onopen
OnOpen(h) ==
  /\ proc = "running"
  /\ hstate[h] = "connecting"
  /\ \E t \in Clock :
       /\ t >= now
       /\ now' = t
       /\ connectionState' = [isConnected |-> TRUE,
                              lastConnectionTimestamp |-> ToISOString(t)]
  /\ hstate' = [hstate EXCEPT ![h] = "open"]
  \* ws.send(...) goes to the handle in ws; it throws on a CONNECTING socket
  /\ IF hstate'[ws] = "connecting"
     THEN proc' = "crashed" /\ sent' = sent
     ELSE proc' = proc /\ sent' = [sent EXCEPT ![ws] = Append(@, SubscriptionMessage)]
  /\ resp' = NoResp
  /\ UNCHANGED <<ws, timers, currentBoundingBox, shipsData, blob, puts, loads,
                 msgs, queries, updates, dbVars>>

\* OnMessage without the test of data.Message.PositionReport, the fields
\* read with ?. so that a message without a report stores an empty record.
OnMessageNoTest(h, msg) ==
  /\ proc = "running"
  /\ h \in Delivering
  /\ IF Throws(msg)
     THEN proc' = "crashed" /\ UNCHANGED <<shipsData, puts, msgs>>
     ELSE /\ msgs < MaxMsgs
          /\ msgs' = msgs + 1
          /\ shipsData' = Upsert(shipsData, ShipDataOf(msg))
          /\ puts' = puts (+) SetToBag({JSONStringify(shipsData')})
          /\ proc' = proc
  /\ resp' = NoResp
  /\ UNCHANGED <<connVars, blob, loads, now, queries, updates, dbVars>>

\* ws.onmessage.  An exception leaves the handler uncaught: Node ends the
\* process.
OnMessage(h, msg) ==
  /\ proc = "running"
  /\ h \in Delivering
  /\ IF Throws(msg)
     THEN proc' = "crashed" /\ UNCHANGED <<shipsData, puts, msgs>>
     ELSE IF msg.kind = "report"
     THEN /\ msgs < MaxMsgs
          /\ msgs' = msgs + 1
          /\ shipsData' = Upsert(shipsData, ShipDataOf(msg))
          /\ puts' = puts (+) SetToBag({JSONStringify(shipsData')})
          /\ proc' = proc
     ELSE UNCHANGED <<proc, shipsData, puts, msgs>>
  /\ resp' = NoResp
  /\ UNCHANGED <<connVars, blob, loads, now, queries, updates, dbVars>>

\* OnClose without the setTimeout(connectAISStream, 1000).
OnCloseNoTimer(h) ==
  /\ proc = "running"
  /\ hstate[h] \in {"open", "closing", "errored"}
  /\ hstate' = [hstate EXCEPT ![h] = IF h = ws THEN "closed" ELSE "free"]
  /\ connectionState' = [connectionState EXCEPT !.isConnected = FALSE]
  /\ resp' = NoResp
  /\ UNCHANGED <<proc, ws, timers, currentBoundingBox, sent, shipsData,
                 storeVars, now, msgs, queries, updates, dbVars>>

\* ws.onclose
OnClose(h) ==
  /\ proc = "running"
  /\ hstate[h] \in {"open", "closing", "errored"}
  /\ hstate' = [hstate EXCEPT ![h] = IF h = ws THEN "closed" ELSE "free"]
  /\ connectionState' = [connectionState EXCEPT !.isConnected = FALSE]
  /\ timers' = timers + 1
  /\ resp' = NoResp
  /\ UNCHANGED <<proc, ws, currentBoundingBox, sent, shipsData, storeVars,
                 now, msgs, queries, updates, dbVars>>

\* OnError without the isConnected = false assignment.
OnErrorKeepsConnected(h) ==
  /\ proc = "running"
  /\ hstate[h] \in {"connecting", "open", "closing", "aborting"}
  /\ hstate' = [hstate EXCEPT ![h] = "errored"]
  /\ resp' = NoResp
  /\ UNCHANGED <<proc, ws, timers, connectionState, currentBoundingBox, sent,
                 shipsData, storeVars, now, msgs, queries, updates, dbVars>>

\* ws.onerror ('close' follows)
OnError(h) ==
  /\ proc = "running"
  /\ hstate[h] \in {"connecting", "open", "closing", "aborting"}
  /\ hstate' = [hstate EXCEPT ![h] = "errored"]
  /\ connectionState' = [connectionState EXCEPT !.isConnected = FALSE]
  /\ resp' = NoResp
  /\ UNCHANGED <<proc, ws, timers, currentBoundingBox, sent, shipsData,
                 storeVars, now, msgs, queries, updates, dbVars>>

\* the callback of setTimeout(connectAISStream, 1000)
ReconnectTimer ==
  /\ proc = "running"
  /\ timers > 0
  /\ timers' = timers - 1
  /\ connectAISStream
  /\ resp' = NoResp
  /\ UNCHANGED <<proc, connectionState, currentBoundingBox, shipsData,
                 storeVars, now, msgs, queries, updates, dbVars>>

\* The PUT of ws.onmessage completes: the service stores the body, or fails
\* and the error is logged.
PutDone(body, ok) ==
  /\ proc = "running"
  /\ BagIn(body, puts)
  /\ puts' = puts (-) SetToBag({body})
  /\ blob' = IF ok THEN BlobOf(body) ELSE blob
  /\ resp' = NoResp
  /\ UNCHANGED <<proc, connVars, shipsData, loads, now, msgs, queries, updates, dbVars>>

\* The storage service answers the GET of loadShipsData.
LoadServe(l, fail) ==
  /\ proc = "running"
  /\ BagIn(l, loads)
  /\ l.res = "sent"
  /\ loads' = (loads (-) SetToBag({l})) (+)
              SetToBag({IF fail THEN Load(l.origin, "err", <<>>)
                        ELSE IF ~blob.exists THEN Load(l.origin, "404", <<>>)
                        ELSE Load(l.origin, "ok", blob.data)})
  /\ resp' = NoResp
  /\ UNCHANGED <<proc, connVars, shipsData, blob, puts, now, msgs, queries, updates, dbVars>>

\* loadShipsData after its await; when GET /api/ships awaited it, the
\* handler goes on and responds.
LoadDone(l) ==
  /\ proc = "running"
  /\ BagIn(l, loads)
  /\ l.res # "sent"
  /\ loads' = loads (-) SetToBag({l})
  /\ shipsData' = IF l.res = "ok" THEN l.data
                  ELSE IF l.res = "404" THEN <<>>
                  ELSE shipsData
  /\ resp' = IF l.origin = "query"
             THEN [ShipsResponse EXCEPT !.data = shipsData']
             ELSE NoResp
  /\ UNCHANGED <<proc, connVars, blob, puts, now, msgs, queries, updates, dbVars>>

\* app.get('/api/ships')
GetShips ==
  /\ proc = "running"
  /\ queries < MaxQueries
  /\ queries' = queries + 1
  /\ IF Len(shipsData) = 0
     THEN /\ loads' = loads (+) SetToBag({Load("query", "sent", <<>>)})
          /\ resp' = NoResp
     ELSE /\ resp' = ShipsResponse
          /\ loads' = loads
  /\ UNCHANGED <<proc, connVars, shipsData, blob, puts, now, msgs, updates, dbVars>>

NextStream ==
  \/ Startup
  \/ \E h \in Handles : OnOpen(h)
  \/ \E h \in Handles, msg \in Messages : OnMessage(h, msg)
  \/ \E h \in Handles : OnClose(h)
  \/ \E h \in Handles : OnError(h)
  \/ ReconnectTimer
  \/ \E body \in BagToSet(puts), ok \in BOOLEAN : PutDone(body, ok)
  \/ \E l \in BagToSet(loads), fail \in BOOLEAN : LoadServe(l, fail)
  \/ \E l \in BagToSet(loads) : LoadDone(l)
  \/ GetShips

SpecStream == Init /\ [][NextStream]_vars

\* The ws library emits 'close' after every 'error', ends an aborted
\* handshake with 'error', and ends a closing handshake (a timer bounds
\* it); a timer that was set fires while the process runs.
FairStream ==
  /\ WF_vars(ReconnectTimer)
  /\ WF_vars(\E h \in Handles : hstate[h] \in {"closing", "errored"} /\ OnClose(h))
  /\ WF_vars(\E h \in Handles : hstate[h] = "aborting" /\ OnError(h))

FairSpecStream == SpecStream /\ FairStream

\* ------------------------------- src/unnamed/part_000, lines 241 to 336
\* The bounding-box variant: no ConnectionState, no storage, a report
\* replaces the stored record, and POST /api/update-bounding-box reconnects.

\* req.body of POST /api/update-bounding-box: is boundingBox there, is it
\* an array, how long is it, and which box it is.
Body(present, isArray, len, box) ==
  [present |-> present, isArray |-> isArray, len |-> len, box |-> box]

Bodies ==
  {Body(TRUE, TRUE, 2, "boxA"), Body(TRUE, TRUE, 2, "boxB"),
   Body(FALSE, FALSE, 0, "none"), Body(TRUE, FALSE, 2, "text"),
   Body(TRUE, TRUE, 3, "three")}

\* ValidBox without the test of the length.
ValidBoxAnyLength(b) == b.present /\ b.isArray

\* boundingBox && Array.isArray(boundingBox) && boundingBox.length === 2
ValidBox(b) == b.present /\ b.isArray /\ b.len = 2

\* function connectAISStream() of this variant
BoxConnect ==
  LET hs == DropClosed(CloseHandle(hstate, ws), ws) IN
  /\ FreeHandles(hs) # {}
  /\ hstate' = [hs EXCEPT ![NewHandle(hs)] = "connecting"]
  /\ ws' = NewHandle(hs)
  /\ sent' = [sent EXCEPT ![NewHandle(hs)] = <<>>]

\* shipsData[existingIndex] = shipData, or push
BoxUpsert(s, rec) ==
  IF FindIndex(s, rec.mmsi) # 0
  THEN [s EXCEPT ![FindIndex(s, rec.mmsi)] = rec]
  ELSE Append(s, rec)

\* Module top level: connectAISStream() runs once.
BoxStartup ==
  /\ proc = "init"
  /\ proc' = "running"
  /\ BoxConnect
  /\ resp' = NoResp
  /\ UNCHANGED <<timers, connectionState, currentBoundingBox, shipsData,
                 storeVars, now, msgs, queries, updates, dbVars>>

\* ws.onopen
BoxOnOpen(h) ==
  /\ proc = "running"
  /\ hstate[h] = "connecting"
  /\ hstate' = [hstate EXCEPT ![h] = "open"]
  /\ IF hstate'[ws] = "connecting"
     THEN proc' = "crashed" /\ sent' = sent
     ELSE proc' = proc /\ sent' = [sent EXCEPT ![ws] = Append(@, SubscriptionMessage)]
  /\ resp' = NoResp
  /\ UNCHANGED <<ws, timers, connectionState, currentBoundingBox, shipsData,
                 storeVars, now, msgs, queries, updates, dbVars>>

\* ws.onmessage
BoxOnMessage(h, msg) ==
  /\ proc = "running"
  /\ h \in Delivering
  /\ IF Throws(msg)
     THEN proc' = "crashed" /\ UNCHANGED <<shipsData, msgs>>
     ELSE IF msg.kind = "report"
     THEN /\ msgs < MaxMsgs
          /\ msgs' = msgs + 1
          /\ shipsData' = BoxUpsert(shipsData, ShipDataOf(msg))
          /\ proc' = proc
     ELSE UNCHANGED <<proc, shipsData, msgs>>
  /\ resp' = NoResp
  /\ UNCHANGED <<connVars, storeVars, now, queries, updates, dbVars>>

\* ws.onclose
BoxOnClose(h) ==
  /\ proc = "running"
  /\ hstate[h] \in {"open", "closing", "errored"}
  /\ hstate' = [hstate EXCEPT ![h] = IF h = ws THEN "closed" ELSE "free"]
  /\ timers' = timers + 1
  /\ resp' = NoResp
  /\ UNCHANGED <<proc, ws, connectionState, currentBoundingBox, sent,
                 shipsData, storeVars, now, msgs, queries, updates, dbVars>>

\* ws.onerror ('close' follows)
BoxOnError(h) ==
  /\ proc = "running"
  /\ hstate[h] \in {"connecting", "open", "closing", "aborting"}
  /\ hstate' = [hstate EXCEPT ![h] = "errored"]
  /\ resp' = NoResp
  /\ UNCHANGED <<proc, ws, timers, connectionState, currentBoundingBox, sent,
                 shipsData, storeVars, now, msgs, queries, updates, dbVars>>

\* the callback of setTimeout(connectAISStream, 1000)
BoxReconnectTimer ==
  /\ proc = "running"
  /\ timers > 0
  /\ timers' = timers - 1
  /\ BoxConnect
  /\ resp' = NoResp
  /\ UNCHANGED <<proc, connectionState, currentBoundingBox, shipsData,
                 storeVars, now, msgs, queries, updates, dbVars>>

\* app.get('/api/ships'): res.json(shipsData)
BoxGetShips ==
  /\ proc = "running"
  /\ queries < MaxQueries
  /\ queries' = queries + 1
  /\ resp' = [NoResp EXCEPT !.status = 200, !.data = shipsData]
  /\ UNCHANGED <<proc, connVars, shipsData, storeVars, now, msgs, updates, dbVars>>

\* app.post('/api/update-bounding-box')
UpdateBoundingBox(b) ==
  /\ proc = "running"
  /\ updates < MaxUpdates
  /\ updates' = updates + 1
  /\ IF ValidBox(b)
     THEN /\ currentBoundingBox' = b.box
          /\ BoxConnect
          /\ resp' = [NoResp EXCEPT !.status = 200]
     ELSE /\ resp' = [NoResp EXCEPT !.status = 400]
          /\ UNCHANGED <<ws, hstate, sent, currentBoundingBox>>
  /\ UNCHANGED <<proc, timers, connectionState, shipsData, storeVars, now,
                 msgs, queries, dbVars>>

NextBox ==
  \/ BoxStartup
  \/ \E h \in Handles : BoxOnOpen(h)
  \/ \E h \in Handles, msg \in Messages : BoxOnMessage(h, msg)
  \/ \E h \in Handles : BoxOnClose(h)
  \/ \E h \in Handles : BoxOnError(h)
  \/ BoxReconnectTimer
  \/ BoxGetShips
  \/ \E b \in Bodies : UpdateBoundingBox(b)

\* This variant keeps nothing in storage.
InitBox == Init /\ blob = NoBlob

SpecBox == InitBox /\ [][NextBox]_vars

\* Fairness of this variant: Node runs the callback of a timer that is due;
\* ws emits 'close' on a socket that is closing or has failed and 'error'
\* on a socket whose handshake was aborted; and the upstream server accepts
\* a connection that stays pending.
FairBox ==
  /\ WF_vars(BoxReconnectTimer)
  /\ WF_vars(\E h \in Handles : hstate[h] \in {"closing", "errored"} /\ BoxOnClose(h))
  /\ WF_vars(\E h \in Handles : hstate[h] = "aborting" /\ BoxOnError(h))
  /\ \A h \in Handles : WF_vars(BoxOnOpen(h))

\* The steps of this variant while the upstream is healthy: it sends no
\* message that makes the handler throw and no pending or open connection
\* fails or is closed by the server, so a 'close' comes only after close()
\* and an 'error' only from a handshake that close() aborted.
HealthyNextBox ==
  \/ BoxStartup
  \/ \E h \in Handles : BoxOnOpen(h)
  \/ \E h \in Handles, msg \in Messages : ~Throws(msg) /\ BoxOnMessage(h, msg)
  \/ \E h \in Handles : hstate[h] \in {"closing", "errored"} /\ BoxOnClose(h)
  \/ \E h \in Handles : hstate[h] = "aborting" /\ BoxOnError(h)
  \/ BoxReconnectTimer
  \/ BoxGetShips
  \/ \E b \in Bodies : UpdateBoundingBox(b)

FairSpecBox == InitBox /\ [][HealthyNextBox]_vars /\ FairBox

\* --------------------------------- src/unnamed/part_001, lines 1 to 300
\* The postgres variant: reports go to the Map shipDataCache, a timer
\* flushes the Map to table ships, another deletes old rows, and GET
\* /api/ships queries the table.  Its onopen, onclose and onerror handlers
\* and its connectAISStream are those of src/index.js, line for line
\* (part_001:63-82, 103-112), so OnOpen, OnClose, OnError and
\* ReconnectTimer above are its actions too.

\* new Date(data.MetaData.time_utc): the instant that the text denotes
NewDate(t) == t

\* const shipData = {...} of this variant
DbShipDataOf(msg) ==
  [mmsi |-> msg.mmsi, lat |-> msg.lat, lon |-> msg.lon,
   speed |-> OrZero(msg.sog), course |-> OrZero(msg.cog),
   timestamp |-> NewDate(msg.time)]

\* shipDataCache.set(mmsi, shipData): a Map keeps the place of a key it has
MapSet(c, rec) ==
  IF FindIndex(c, rec.mmsi) # 0
  THEN [c EXCEPT ![FindIndex(c, rec.mmsi)] = rec]
  ELSE Append(c, rec)

Range(f) == {f[i] : i \in DOMAIN f}

\* INSERT INTO ships ... ON CONFLICT (mmsi) DO UPDATE SET ...
UpsertRows(rows, batch) ==
  {r \in rows : \A i \in 1..Len(batch) : batch[i].mmsi # r.mmsi} \cup Range(batch)

\* The process runs: before and after initializeDatabase has returned.
Alive == proc \in {"initializing", "running"}

\* process.on('exit', async () => { await flushShipDataCache(); ... }):
\* the listener runs up to the first await of flushShipDataCache, then the
\* process ends; the INSERT it has just started is never completed.
ExitHandler ==
  IF Len(shipDataCache) = 0
  THEN UNCHANGED <<shipDataCache, flushes>>
  ELSE /\ shipDataCache' = <<>>
       /\ flushes' = flushes (+) SetToBag({shipDataCache})

\* Module top level: the timers and the process listeners are set and the
\* startup function awaits initializeDatabase().
DbStartup ==
  /\ proc = "init"
  /\ proc' = "initializing"
  /\ resp' = NoResp
  /\ UNCHANGED <<connVars, shipsData, storeVars, now, msgs, queries, updates,
                 dbVars>>

\* app.listen(PORT) has run: the HTTP server accepts requests
Listening == proc = "running"

\* DbInitDone with the failure of initializeDatabase only logged: the
\* startup function goes on to app.listen and connectAISStream.
DbInitDoneContinues(ok) ==
  /\ proc = "initializing"
  /\ proc' = "running"
  /\ connectAISStream
  /\ resp' = NoResp
  /\ UNCHANGED <<timers, connectionState, currentBoundingBox, shipsData,
                 storeVars, now, msgs, queries, updates, dbVars>>

\* initializeDatabase returns, then app.listen and connectAISStream; or it
\* fails and calls process.exit(1).
DbInitDone(ok) ==
  /\ proc = "initializing"
  /\ IF ok
     THEN /\ proc' = "running"
          /\ connectAISStream
          /\ UNCHANGED <<shipDataCache, flushes>>
     ELSE /\ proc' = "crashed"
          /\ ExitHandler
          /\ UNCHANGED <<ws, hstate, sent>>
  /\ resp' = NoResp
  /\ UNCHANGED <<timers, connectionState, currentBoundingBox, shipsData,
                 storeVars, now, msgs, queries, updates, db, selects, sweeps,
                 batches>>

\* ws.onmessage.  An exception reaches process.on('uncaughtException'),
\* which calls process.exit(1).
DbOnMessage(h, msg) ==
  /\ proc = "running"
  /\ h \in Delivering
  /\ IF Throws(msg)
     THEN proc' = "crashed" /\ ExitHandler /\ msgs' = msgs
     ELSE IF msg.kind = "report"
     THEN /\ msgs < MaxMsgs
          /\ msgs' = msgs + 1
          /\ shipDataCache' = MapSet(shipDataCache, DbShipDataOf(msg))
          /\ UNCHANGED <<proc, flushes>>
     ELSE UNCHANGED <<proc, shipDataCache, flushes, msgs>>
  /\ resp' = NoResp
  /\ UNCHANGED <<connVars, shipsData, storeVars, now, queries, updates, db,
                 selects, sweeps, batches>>

\* setInterval(flushShipDataCache, 300000): flushShipDataCache up to its
\* await
FlushTick ==
  /\ Alive
  /\ IF Len(shipDataCache) = 0
     THEN UNCHANGED <<shipDataCache, flushes, batches>>
     ELSE /\ batches < MaxFlushes
          /\ batches' = batches + 1
          /\ flushes' = flushes (+) SetToBag({shipDataCache})
          /\ shipDataCache' = <<>>
  /\ resp' = NoResp
  /\ UNCHANGED <<proc, connVars, shipsData, storeVars, now, msgs, queries,
                 updates, db, selects, sweeps>>

\* FlushDone with shipDataCache.clear() moved behind the await.
FlushDoneClears(batch, ok) ==
  /\ Alive
  /\ BagIn(batch, flushes)
  /\ flushes' = flushes (-) SetToBag({batch})
  /\ db' = IF ok THEN UpsertRows(db, batch) ELSE db
  /\ shipDataCache' = <<>>
  /\ resp' = NoResp
  /\ UNCHANGED <<proc, connVars, shipsData, storeVars, now, msgs, queries,
                 updates, selects, sweeps, batches>>

\* flushShipDataCache after its await: the INSERT succeeded, or it failed
\* and the error is logged.
FlushDone(batch, ok) ==
  /\ Alive
  /\ BagIn(batch, flushes)
  /\ flushes' = flushes (-) SetToBag({batch})
  /\ db' = IF ok THEN UpsertRows(db, batch) ELSE db
  /\ resp' = NoResp
  /\ UNCHANGED <<proc, connVars, shipsData, storeVars, now, msgs, queries,
                 updates, shipDataCache, selects, sweeps, batches>>

\* thresholdDate.setDate(thresholdDate.getDate() - 1)
Day == 1

ThresholdDate(t) == t - Day

\* DELETE with timestamp <= threshold instead of timestamp < threshold.
DeleteOlderOrEqual(rows, threshold) == {r \in rows : ~(r.timestamp <= threshold)}

\* DELETE FROM ships WHERE timestamp < ${thresholdDate}: the rows left
DeleteOlder(rows, threshold) == {r \in rows : ~(r.timestamp < threshold)}

\* A DELETE that deleteOldRecords awaits, and what the database answered
\* ("sent" while it has not answered yet; count is the number of rows that
\* the command reports as deleted).
Sweep(threshold, res, count) == [threshold |-> threshold, res |-> res, count |-> count]

\* setInterval(deleteOldRecords, 3600000): deleteOldRecords up to its await
SweepTick ==
  /\ Alive
  /\ BagCardinality(sweeps) < MaxSweeps
  /\ \E t \in Clock :
       /\ t >= now
       /\ now' = t
       /\ sweeps' = sweeps (+) SetToBag({Sweep(ThresholdDate(t), "sent", 0)})
  /\ resp' = NoResp
  /\ UNCHANGED <<proc, connVars, shipsData, storeVars, msgs, queries, updates,
                 shipDataCache, db, flushes, selects, batches>>

\* The database runs the DELETE, or the command fails.
SweepServe(sw, ok) ==
  /\ Alive
  /\ BagIn(sw, sweeps)
  /\ sw.res = "sent"
  /\ db' = IF ok THEN DeleteOlder(db, sw.threshold) ELSE db
  /\ sweeps' = (sweeps (-) SetToBag({sw})) (+)
               SetToBag({IF ok
                         THEN Sweep(sw.threshold, "ok", Cardinality(db \ db'))
                         ELSE Sweep(sw.threshold, "err", 0)})
  /\ resp' = NoResp
  /\ UNCHANGED <<proc, connVars, shipsData, storeVars, now, msgs, queries,
                 updates, shipDataCache, flushes, selects, batches>>

\* SweepDone without the try/catch: the rejection of the DELETE is
\* unhandled and ends the process.
SweepDoneRethrows(sw) ==
  /\ Alive
  /\ BagIn(sw, sweeps)
  /\ sw.res # "sent"
  /\ sweeps' = sweeps (-) SetToBag({sw})
  /\ IF sw.res = "err"
     THEN proc' = "crashed" /\ ExitHandler
     ELSE UNCHANGED <<proc, shipDataCache, flushes>>
  /\ resp' = NoResp
  /\ UNCHANGED <<connVars, shipsData, storeVars, now, msgs, queries, updates,
                 db, selects, batches>>

\* deleteOldRecords after its await: the outcome is logged.
SweepDone(sw) ==
  /\ Alive
  /\ BagIn(sw, sweeps)
  /\ sw.res # "sent"
  /\ sweeps' = sweeps (-) SetToBag({sw})
  /\ resp' = NoResp
  /\ UNCHANGED <<proc, connVars, shipsData, storeVars, now, msgs, queries,
                 updates, shipDataCache, db, flushes, selects, batches>>

\* req.query of GET /api/ships.  A parameter is Absent when the query
\* string does not name it; otherwise it is the text of a number, written
\* here as that number, or the text of an instant, written as its day.
NoFilters ==
  [mmsi |-> Absent, latMin |-> Absent, latMax |-> Absent, lonMin |-> Absent,
   lonMax |-> Absent, speedMin |-> Absent, speedMax |-> Absent,
   courseMin |-> Absent, courseMax |-> Absent, timestampMin |-> Absent,
   timestampMax |-> Absent, page |-> Absent, limit |-> Absent]

\* A query without filters.
Query(page, limit) == [NoFilters EXCEPT !.page = page, !.limit = limit]

\* The queries that clients send: three that only page, then mmsi with a
\* speed range from 0 to 0, a course range with a lone latMin, a lone
\* speedMin, and a full box with a timestamp range.
Queries ==
  {Query(Absent, Absent), Query(MaxPage - 1, 1), Query(1, MaxLimit),
   [NoFilters EXCEPT !.mmsi = 222, !.speedMin = 0, !.speedMax = 0],
   [NoFilters EXCEPT !.courseMin = 45, !.courseMax = 90, !.latMin = 11],
   [NoFilters EXCEPT !.speedMin = 5],
   [NoFilters EXCEPT !.latMin = 10, !.latMax = 10, !.lonMin = 20,
                     !.lonMax = 21, !.timestampMin = 0, !.timestampMax = 1]}

\* if (x) of a query parameter that is "0" when parsed before it is tested
GivenNumber(x) == x # Absent /\ x # 0

\* if (x) of a query parameter: a parameter that is given is a text that is
\* not empty, and such a text is truthy, "0" included
Given(x) == x # Absent

\* parseFloat(x) of the text of a number
ParseFloat(x) == x

\* The WHERE clause that the conditions make: every bound that is given
\* adds its own condition.
DbWhere(r, q) ==
  /\ Given(q.mmsi) => r.mmsi = q.mmsi
  /\ Given(q.latMin) => r.lat >= ParseFloat(q.latMin)
  /\ Given(q.latMax) => r.lat <= ParseFloat(q.latMax)
  /\ Given(q.lonMin) => r.lon >= ParseFloat(q.lonMin)
  /\ Given(q.lonMax) => r.lon <= ParseFloat(q.lonMax)
  /\ Given(q.speedMin) => r.speed >= ParseFloat(q.speedMin)
  /\ Given(q.speedMax) => r.speed <= ParseFloat(q.speedMax)
  /\ Given(q.courseMin) => r.course >= ParseFloat(q.courseMin)
  /\ Given(q.courseMax) => r.course <= ParseFloat(q.courseMax)
  /\ Given(q.timestampMin) => r.timestamp >= NewDate(q.timestampMin)
  /\ Given(q.timestampMax) => r.timestamp <= NewDate(q.timestampMax)

\* page = 1, limit = 100 in the destructuring of req.query
PageOf(q)  == IF q.page = Absent THEN 1 ELSE q.page
LimitOf(q) == IF q.limit = Absent THEN 100 ELSE q.limit

\* Math.ceil(a / b) for a >= 0, b > 0
Ceil(a, b) == (a + b - 1) \div b

\* ORDER BY mmsi
RECURSIVE SortByMmsi(_)
SortByMmsi(rows) ==
  IF rows = {} THEN <<>>
  ELSE LET first == CHOOSE r \in rows : \A o \in rows : r.mmsi <= o.mmsi
       IN <<first>> \o SortByMmsi(rows \ {first})

\* s.slice(from, to) with 0 <= from <= to
Slice(s, from, to) ==
  IF from >= Len(s) THEN <<>>
  ELSE SubSeq(s, from + 1, IF to < Len(s) THEN to ELSE Len(s))

\* SELECT * FROM ships WHERE ... ORDER BY mmsi LIMIT limitValue OFFSET
\* offsetValue
SelectRows(rows, q) ==
  LET offset == (PageOf(q) - 1) * LimitOf(q)
  IN Slice(SortByMmsi({r \in rows : DbWhere(r, q)}), offset, offset + LimitOf(q))

\* responsePayload of GET /api/ships: totalResults is result.rowCount
DbPayload(result, q) ==
  [NoResp EXCEPT
     !.status = 200,
     !.data = result,
     !.isConnected = connectionState.isConnected,
     !.lastConnectionTimestamp = connectionState.lastConnectionTimestamp,
     !.totalResults = Len(result),
     !.currentPage = PageOf(q),
     !.totalPages = Ceil(Len(result), LimitOf(q))]

\* A SELECT that GET /api/ships awaits, and what the database answered
\* ("sent" while it has not answered yet).
Select(q, res, rows) == [q |-> q, res |-> res, rows |-> rows]

\* app.get('/api/ships') up to await sql.query(queryText, values)
DbGetShips(q) ==
  /\ Listening
  /\ queries < MaxQueries
  /\ queries' = queries + 1
  /\ selects' = selects (+) SetToBag({Select(q, "sent", <<>>)})
  /\ resp' = NoResp
  /\ UNCHANGED <<proc, connVars, shipsData, storeVars, now, msgs, updates,
                 shipDataCache, db, flushes, sweeps, batches>>

\* The database runs the SELECT, or the query fails.
SelectServe(sel, ok) ==
  /\ proc = "running"
  /\ BagIn(sel, selects)
  /\ sel.res = "sent"
  /\ selects' = (selects (-) SetToBag({sel})) (+)
                SetToBag({IF ok THEN Select(sel.q, "ok", SelectRows(db, sel.q))
                          ELSE Select(sel.q, "err", <<>>)})
  /\ resp' = NoResp
  /\ UNCHANGED <<proc, connVars, shipsData, storeVars, now, msgs, queries,
                 updates, shipDataCache, db, flushes, sweeps, batches>>

\* app.get('/api/ships') after the await: 200 with the payload, or 500
SelectDone(sel) ==
  /\ proc = "running"
  /\ BagIn(sel, selects)
  /\ sel.res # "sent"
  /\ selects' = selects (-) SetToBag({sel})
  /\ resp' = IF sel.res = "ok" THEN DbPayload(sel.rows, sel.q)
             ELSE [NoResp EXCEPT !.status = 500]
  /\ UNCHANGED <<proc, connVars, shipsData, storeVars, now, msgs, queries,
                 updates, shipDataCache, db, flushes, sweeps, batches>>

\* process.on('SIGINT' | 'SIGTERM', () => process.exit())
Shutdown ==
  /\ Alive
  /\ proc' = "exited"
  /\ ExitHandler
  /\ resp' = NoResp
  /\ UNCHANGED <<connVars, shipsData, storeVars, now, msgs, queries, updates,
                 db, selects, sweeps, batches>>

NextDb ==
  \/ DbStartup
  \/ \E ok \in BOOLEAN : DbInitDone(ok)
  \/ \E h \in Handles : OnOpen(h)
  \/ \E h \in Handles, msg \in Messages : DbOnMessage(h, msg)
  \/ \E h \in Handles : OnClose(h)
  \/ \E h \in Handles : OnError(h)
  \/ ReconnectTimer
  \/ FlushTick
  \/ \E batch \in BagToSet(flushes), ok \in BOOLEAN : FlushDone(batch, ok)
  \/ SweepTick
  \/ \E sw \in BagToSet(sweeps), ok \in BOOLEAN : SweepServe(sw, ok)
  \/ \E sw \in BagToSet(sweeps) : SweepDone(sw)
  \/ \E q \in Queries : DbGetShips(q)
  \/ \E sel \in BagToSet(selects), ok \in BOOLEAN : SelectServe(sel, ok)
  \/ \E sel \in BagToSet(selects) : SelectDone(sel)
  \/ Shutdown

\* This variant has no blob storage.
InitDb == Init /\ blob = NoBlob

SpecDb == InitDb /\ [][NextDb]_vars

\* --------------------------------- src/unnamed/part_000, lines 1 to 240
\* The in-memory filter variant: src/index.js with another GET /api/ships.
\* Its loadShipsData, connectAISStream and the four handlers are those of
\* src/index.js, line for line (part_000:30-136), so OnOpen, OnMessage,
\* OnClose, OnError, ReconnectTimer and PutDone above are its actions too.

\* ship.mmsi.toString()
MmsiToString(n) == n

\* filteredData after the five filters of the handler, applied in turn
FilterShips(s, q) ==
  LET byMmsi ==
        IF Given(q.mmsi)
        THEN SelectSeq(s, LAMBDA ship : MmsiToString(ship.mmsi) = q.mmsi)
        ELSE s
      byBox ==
        IF Given(q.latMin) /\ Given(q.latMax) /\ Given(q.lonMin) /\ Given(q.lonMax)
        THEN SelectSeq(byMmsi, LAMBDA ship :
               /\ ship.lat >= ParseFloat(q.latMin)
               /\ ship.lat <= ParseFloat(q.latMax)
               /\ ship.lon >= ParseFloat(q.lonMin)
               /\ ship.lon <= ParseFloat(q.lonMax))
        ELSE byMmsi
      bySpeed ==
        IF Given(q.speedMin) /\ Given(q.speedMax)
        THEN SelectSeq(byBox, LAMBDA ship :
               /\ ship.speed >= ParseFloat(q.speedMin)
               /\ ship.speed <= ParseFloat(q.speedMax))
        ELSE byBox
      byCourse ==
        IF Given(q.courseMin) /\ Given(q.courseMax)
        THEN SelectSeq(bySpeed, LAMBDA ship :
               /\ ship.course >= ParseFloat(q.courseMin)
               /\ ship.course <= ParseFloat(q.courseMax))
        ELSE bySpeed
  IN IF Given(q.timestampMin) /\ Given(q.timestampMax)
     THEN SelectSeq(byCourse, LAMBDA ship :
            /\ NewDate(ship.timestamp) >= NewDate(q.timestampMin)
            /\ NewDate(ship.timestamp) <= NewDate(q.timestampMax))
     ELSE byCourse

\* responsePayload of this handler: the page of filteredData and the counts
FilterPayload(s, q) ==
  LET filteredData == FilterShips(s, q)
      startIndex   == (PageOf(q) - 1) * LimitOf(q)
      endIndex     == PageOf(q) * LimitOf(q)
  IN [NoResp EXCEPT
        !.status = 200,
        !.data = Slice(filteredData, startIndex, endIndex),
        !.isConnected = connectionState.isConnected,
        !.lastConnectionTimestamp = connectionState.lastConnectionTimestamp,
        !.totalResults = Len(filteredData),
        !.currentPage = PageOf(q),
        !.totalPages = Ceil(Len(filteredData), LimitOf(q))]

\* A pending fetch of loadShipsData and the query of the handler that
\* awaits it (NoFilters for the call at startup).
FilterLoad(origin, res, data, q) ==
  [origin |-> origin, res |-> res, data |-> data, q |-> q]

\* Module top level: loadShipsData() is called and connectAISStream() runs.
FilterStartup ==
  /\ proc = "init"
  /\ proc' = "running"
  /\ loads' = loads (+) SetToBag({FilterLoad("startup", "sent", <<>>, NoFilters)})
  /\ connectAISStream
  /\ resp' = NoResp
  /\ UNCHANGED <<timers, connectionState, currentBoundingBox, shipsData, blob,
                 puts, now, msgs, queries, updates, dbVars>>

\* The storage service answers the GET of loadShipsData.
FilterLoadServe(l, fail) ==
  /\ proc = "running"
  /\ BagIn(l, loads)
  /\ l.res = "sent"
  /\ loads' = (loads (-) SetToBag({l})) (+)
              SetToBag({IF fail THEN FilterLoad(l.origin, "err", <<>>, l.q)
                        ELSE IF ~blob.exists THEN FilterLoad(l.origin, "404", <<>>, l.q)
                        ELSE FilterLoad(l.origin, "ok", blob.data, l.q)})
  /\ resp' = NoResp
  /\ UNCHANGED <<proc, connVars, shipsData, blob, puts, now, msgs, queries,
                 updates, dbVars>>

\* loadShipsData after its await; when GET /api/ships awaited it, the
\* handler goes on, filters and responds.
FilterLoadDone(l) ==
  /\ proc = "running"
  /\ BagIn(l, loads)
  /\ l.res # "sent"
  /\ loads' = loads (-) SetToBag({l})
  /\ shipsData' = IF l.res = "ok" THEN l.data
                  ELSE IF l.res = "404" THEN <<>>
                  ELSE shipsData
  /\ resp' = IF l.origin = "query" THEN FilterPayload(shipsData', l.q) ELSE NoResp
  /\ UNCHANGED <<proc, connVars, blob, puts, now, msgs, queries, updates, dbVars>>

\* app.get('/api/ships') of this variant
FilterGetShips(q) ==
  /\ proc = "running"
  /\ queries < MaxQueries
  /\ queries' = queries + 1
  /\ IF Len(shipsData) = 0
     THEN /\ loads' = loads (+) SetToBag({FilterLoad("query", "sent", <<>>, q)})
          /\ resp' = NoResp
     ELSE /\ resp' = FilterPayload(shipsData, q)
          /\ loads' = loads
  /\ UNCHANGED <<proc, connVars, shipsData, blob, puts, now, msgs, updates, dbVars>>

NextFilter ==
  \/ FilterStartup
  \/ \E h \in Handles : OnOpen(h)
  \/ \E h \in Handles, msg \in Messages : OnMessage(h, msg)
  \/ \E h \in Handles : OnClose(h)
  \/ \E h \in Handles : OnError(h)
  \/ ReconnectTimer
  \/ \E body \in BagToSet(puts), ok \in BOOLEAN : PutDone(body, ok)
  \/ \E l \in BagToSet(loads), fail \in BOOLEAN : FilterLoadServe(l, fail)
  \/ \E l \in BagToSet(loads) : FilterLoadDone(l)
  \/ \E q \in Queries : FilterGetShips(q)

SpecFilter == Init /\ [][NextFilter]_vars

\* ------------------------------- src/unnamed/part_001, lines 301 to 439
\* The file variant: the registry is kept in the file shipsData.json, read
\* with readFileSync and written with fs.writeFile after every report.
\* Here blob is that file and puts holds the writes whose callback has not
\* run.  Its connectAISStream and the four handlers are those of
\* src/index.js (part_001:339-401), with fs.writeFile in the place of the
\* PUT, so OnOpen, OnMessage, OnClose, OnError and ReconnectTimer above are
\* its actions too.

\* fs.existsSync(SHIPS_DATA_FILE) and JSON.parse(fs.readFileSync(...))
ReadFile(old) == IF blob.exists THEN blob.data ELSE old

\* Module top level: the file is read if it exists and connectAISStream()
\* runs.
FileStartup ==
  /\ proc = "init"
  /\ proc' = "running"
  /\ shipsData' = ReadFile(shipsData)
  /\ connectAISStream
  /\ resp' = NoResp
  /\ UNCHANGED <<timers, connectionState, currentBoundingBox, storeVars, now,
                 msgs, queries, updates, dbVars>>

\* The callback of fs.writeFile: the file holds the text of this call, or
\* the write failed and the error is logged.  Writes that are pending
\* together complete in any order.
WriteDone(body, ok) ==
  /\ proc = "running"
  /\ BagIn(body, puts)
  /\ puts' = puts (-) SetToBag({body})
  /\ blob' = IF ok THEN BlobOf(body) ELSE blob
  /\ resp' = NoResp
  /\ UNCHANGED <<proc, connVars, shipsData, loads, now, msgs, queries, updates,
                 dbVars>>

\* app.get('/api/ships') of this variant: an empty registry is read from
\* the file first
FileGetShips ==
  /\ proc = "running"
  /\ queries < MaxQueries
  /\ queries' = queries + 1
  /\ shipsData' = IF Len(shipsData) = 0 THEN ReadFile(shipsData) ELSE shipsData
  /\ resp' = [ShipsResponse EXCEPT !.data = shipsData']
  /\ UNCHANGED <<proc, connVars, storeVars, now, msgs, updates, dbVars>>

NextFile ==
  \/ FileStartup
  \/ \E h \in Handles : OnOpen(h)
  \/ \E h \in Handles, msg \in Messages : OnMessage(h, msg)
  \/ \E h \in Handles : OnClose(h)
  \/ \E h \in Handles : OnError(h)
  \/ ReconnectTimer
  \/ \E body \in BagToSet(puts), ok \in BOOLEAN : WriteDone(body, ok)
  \/ FileGetShips

SpecFile == Init /\ [][NextFile]_vars

\* The steps of this variant while the file system is reliable: no write
\* fails.
ReliableNextFile ==
  \/ FileStartup
  \/ \E h \in Handles : OnOpen(h)
  \/ \E h \in Handles, msg \in Messages : OnMessage(h, msg)
  \/ \E h \in Handles : OnClose(h)
  \/ \E h \in Handles : OnError(h)
  \/ ReconnectTimer
  \/ \E body \in BagToSet(puts) : WriteDone(body, TRUE)
  \/ FileGetShips

ReliableSpecFile == Init /\ [][ReliableNextFile]_vars

\* ------------------------------------------------ claims on src/index.js

\* C2: a malformed upstream message (not JSON, or JSON without the fields
\* the handler dereferences) is dropped without effect: the process keeps
\* running, the handles, the registry and ConnectionState do not change.
C2_MalformedDropped ==
  [][\A h \in Handles, msg \in Messages :
       (Throws(msg) /\ OnMessage(h, msg)) =>
         /\ proc' = "running"
         /\ hstate' = hstate
         /\ shipsData' = shipsData
         /\ connectionState' = connectionState]_vars

\* C3: when a report for an mmsi already in the registry omits speed and/or
\* course, the stored record keeps the stored value of each omitted field,
\* and lat, lon and timestamp take the new values.
C3_MergeKeepsOmitted ==
  [][\A h \in Handles, msg \in Reports :
       (OnMessage(h, msg) /\ FindIndex(shipsData, msg.mmsi) # 0) =>
         LET i   == FindIndex(shipsData, msg.mmsi)
             old == shipsData[i]
             new == shipsData'[i]
         IN /\ msg.sog = Absent => new.speed = old.speed
            /\ msg.cog = Absent => new.course = old.course
            /\ new.lat = msg.lat /\ new.lon = msg.lon
            /\ new.timestamp = msg.time]_vars

\* C4: in every reachable state the registry holds at most one record per
\* mmsi, whatever reports, storage reloads and queries came before.
C4_OneRecordPerMmsi ==
  \A i, j \in 1..Len(shipsData) :
    shipsData[i].mmsi = shipsData[j].mmsi => i = j

\* C4 witness: two reports were ingested for one vessel and the registry,
\* written to storage, holds that vessel once.
C4_Witness ==
  /\ msgs = 2
  /\ Len(shipsData) = 1
  /\ shipsData[1].timestamp = 1
  /\ blob = BlobOf(shipsData)

\* A close or error event was delivered to handle h in this step.
DisconnectEvent(h) ==
  /\ hstate[h] \in {"connecting", "open", "closing", "aborting", "errored"}
  /\ hstate'[h] \in {"errored", "closed", "free"}
  /\ hstate'[h] # hstate[h]

\* The open event was delivered to handle h in this step.
OpenEvent(h) == hstate[h] = "connecting" /\ hstate'[h] = "open"

\* C8: after a close or error event isConnected is false, it becomes true
\* only in an open handler, and lastConnectionTimestamp changes only in an
\* open handler.
C8_DisconnectedUntilOpen ==
  [][/\ (\E h \in Handles : DisconnectEvent(h)) => ~connectionState'.isConnected
     /\ (connectionState'.isConnected /\ ~connectionState.isConnected) =>
          \E h \in Handles : OpenEvent(h)
     /\ (connectionState'.lastConnectionTimestamp #
           connectionState.lastConnectionTimestamp) =>
          \E h \in Handles : OpenEvent(h)]_vars

\* C8 witness: a connection was opened and then lost.
C8_Witness ==
  /\ ~connectionState.isConnected
  /\ connectionState.lastConnectionTimestamp # NoTimestamp
  /\ ws # NoHandle
  /\ hstate[ws] \in {"errored", "closed"}

\* C9: every transport disconnect (an error, or a close) of the current
\* connection is eventually followed by a new connect attempt, no close or
\* error event ends the process, and every handshake carries the current
\* bounding boxes.
C9_ReconnectAfterDisconnect ==
  /\ (ws # NoHandle /\ hstate[ws] \in {"errored", "closed"})
       ~> (ws # NoHandle /\ hstate[ws] = "connecting")
  /\ [][(\E h \in Handles : DisconnectEvent(h)) => proc' = "running"]_vars
  /\ [](\A h \in Handles : \A i \in 1..Len(sent[h]) :
          sent[h][i].BoundingBoxes = currentBoundingBox)

\* C9 witness: the current connection is lost and the reconnect timer is
\* pending.
C9_Witness ==
  /\ proc = "running"
  /\ ws # NoHandle
  /\ hstate[ws] = "closed"
  /\ timers = 1

\* ------------------------- claims on src/unnamed/part_000, lines 241-336

\* C1: at most one upstream connection is live at any time: no two handles
\* can deliver messages into the registry at the same moment.
C1_OneLiveConnection == Cardinality(Delivering) <= 1

\* ---------------------------- claims on src/unnamed/part_001, lines 1-300

\* C5: when the INSERT of a flush fails, the records of its batch remain
\* pending in the cache for the next flush.
C5_FailedFlushRetained ==
  [][\A batch \in BagToSet(flushes) :
       FlushDone(batch, FALSE) =>
         \A i \in 1..Len(batch) :
           \E j \in 1..Len(shipDataCache') :
             shipDataCache'[j].mmsi = batch[i].mmsi]_vars

\* A batch was handed to the INSERT in this step and holds record r.
Batched(r) ==
  \E b \in BagToSet(flushes') :
    CopiesIn(b, flushes') > CopiesIn(b, flushes) /\ r \in Range(b)

\* C6: no update is lost between ingestion and flush: a report that
\* onmessage writes is in the cache after the handler, and a record leaves
\* the cache only into the batch of a flush, or because a later report for
\* the same vessel replaces it.
C6_NoUpdateLost ==
  [][/\ \A h \in Handles, msg \in Reports :
          DbOnMessage(h, msg) => DbShipDataOf(msg) \in Range(shipDataCache')
     /\ \A r \in Range(shipDataCache) :
          \/ r \in Range(shipDataCache')
          \/ Batched(r)
          \/ /\ msgs' = msgs + 1
             /\ \E o \in Range(shipDataCache') : o.mmsi = r.mmsi]_vars

\* C6 witness: a flush is awaiting its INSERT and a report that arrived
\* meanwhile is pending in the cache.
C6_Witness ==
  /\ flushes # EmptyBag
  /\ Len(shipDataCache) = 1
  /\ msgs = 2
  /\ proc = "running"

\* C7: after a shutdown by SIGINT or SIGTERM every record that the final
\* flush took from the cache has been stored: no INSERT is left unfinished.
C7_FinalFlushCompletes ==
  proc = "exited" =>
    \A b \in BagToSet(flushes) : \A i \in 1..Len(b) : b[i] \in db

\* The data of pages from..to of a query with this limit, in order.
RECURSIVE Pages(_, _, _)
Pages(from, to, limit) ==
  IF from > to THEN <<>>
  ELSE SelectRows(db, Query(from, limit)) \o Pages(from + 1, to, limit)

\* C10: for any limit > 0 the pages 1..totalPages, in order, are the
\* filtered records without duplicate or omission, totalPages is
\* ceil(number of filtered records / limit), and a page beyond totalPages
\* is empty.
C10_PagesCoverFiltered ==
  \A limit \in 1..MaxLimit :
    LET first == DbPayload(SelectRows(db, Query(1, limit)), Query(1, limit))
    IN /\ Pages(1, first.totalPages, limit) = SortByMmsi(db)
       /\ first.totalPages = Ceil(Cardinality(db), limit)
       /\ \A p \in 1..MaxPage :
            LET page == DbPayload(SelectRows(db, Query(p, limit)), Query(p, limit))
            IN p > page.totalPages => page.data = <<>>

\* C11: totalResults is the number of rows that match the filters of the
\* query, whatever its page and limit, and totalPages is
\* ceil(totalResults / limit).
C11_TotalsCountFiltered ==
  [][\A sel \in BagToSet(selects) :
       SelectServe(sel, TRUE) =>
         LET payload == DbPayload(SelectRows(db, sel.q), sel.q)
             total   == Cardinality({r \in db : DbWhere(r, sel.q)})
         IN /\ payload.totalResults = total
            /\ payload.totalPages = Ceil(total, LimitOf(sel.q))]_vars

\* C14: every response to a query that is produced while isConnected is
\* false carries the advisory message next to the data.
C14_AdvisoryWhenDisconnected ==
  (resp.status = 200 /\ ~resp.isConnected) => resp.message # NoMessage

\* The query without the bounds of every range group that is not given in
\* full: the box needs its four bounds, speed, course and timestamp need
\* both of theirs.
StripPartial(q) ==
  LET box   == /\ q.latMin # Absent /\ q.latMax # Absent
               /\ q.lonMin # Absent /\ q.lonMax # Absent
      speed == q.speedMin # Absent /\ q.speedMax # Absent
      crs   == q.courseMin # Absent /\ q.courseMax # Absent
      time  == q.timestampMin # Absent /\ q.timestampMax # Absent
  IN [q EXCEPT
        !.latMin = IF box THEN @ ELSE Absent,
        !.latMax = IF box THEN @ ELSE Absent,
        !.lonMin = IF box THEN @ ELSE Absent,
        !.lonMax = IF box THEN @ ELSE Absent,
        !.speedMin = IF speed THEN @ ELSE Absent,
        !.speedMax = IF speed THEN @ ELSE Absent,
        !.courseMin = IF crs THEN @ ELSE Absent,
        !.courseMax = IF crs THEN @ ELSE Absent,
        !.timestampMin = IF time THEN @ ELSE Absent,
        !.timestampMax = IF time THEN @ ELSE Absent]

\* C13: a range group of which only some bounds are given is not applied
\* at all: the database answers the query as it answers the query without
\* those bounds.
C13_PartialGroupIgnored ==
  [][\A sel \in BagToSet(selects) :
       SelectServe(sel, TRUE) =>
         SelectRows(db, sel.q) = SelectRows(db, StripPartial(sel.q))]_vars

\* C17: a retention sweep with threshold T removes all and only the rows
\* whose timestamp is strictly earlier than T; a row whose timestamp is T or
\* later stays.
C17_SweepRemovesOlder ==
  [][\A sw \in BagToSet(sweeps) :
       SweepServe(sw, TRUE) =>
         /\ db' \subseteq db
         /\ \A r \in db : r \in db' <=> r.timestamp >= sw.threshold]_vars

\* C17 witness: a sweep has deleted a row and has kept a row whose
\* timestamp is its threshold.
C17_Witness ==
  \E sw \in BagToSet(sweeps) :
    /\ sw.res = "ok"
    /\ sw.count >= 1
    /\ \E r \in db : r.timestamp = sw.threshold

\* A flush or a sweep has failed in this step: the INSERT or the DELETE was
\* rejected, or deleteOldRecords has resumed after the rejection.
StorageFailure ==
  \/ \E batch \in BagToSet(flushes) : FlushDone(batch, FALSE)
  \/ \E sw \in BagToSet(sweeps) : SweepServe(sw, FALSE)
  \/ \E sw \in BagToSet(sweeps) : sw.res = "err" /\ SweepDone(sw)

\* C18: a storage failure during a flush or a sweep does not end the
\* process, does not touch the cache or the connection, and leaves both
\* timers armed: while the process runs, the next flush tick and the next
\* sweep tick can fire and a report from the open connection can be
\* ingested.
C18_StorageFailureSurvived ==
  /\ [][StorageFailure => /\ proc' = proc
                          /\ Alive'
                          /\ UNCHANGED <<shipDataCache, connVars>>]_vars
  /\ []((Alive /\ BagCardinality(sweeps) < MaxSweeps) => ENABLED SweepTick)
  /\ []((Alive /\ (Len(shipDataCache) = 0 \/ batches < MaxFlushes))
          => ENABLED FlushTick)
  /\ []((proc = "running" /\ Delivering # {} /\ msgs < MaxMsgs)
          => ENABLED (\E h \in Handles, msg \in Reports : DbOnMessage(h, msg)))

\* C18 witness: the DELETE of a sweep was rejected, the process runs, a
\* report is pending in the cache and a flush awaits its INSERT.
C18_Witness ==
  /\ \E sw \in BagToSet(sweeps) : sw.res = "err"
  /\ proc = "running"
  /\ Len(shipDataCache) = 1
  /\ flushes # EmptyBag

\* C19: before initializeDatabase has succeeded the server does not listen
\* and no upstream connection exists; when it fails the process ends with
\* neither; the server listens and the first connection is made only in the
\* step in which initializeDatabase succeeds.
C19_NoServiceBeforeInit ==
  /\ [](proc \in {"init", "initializing"} =>
          ~Listening /\ ws = NoHandle /\ queries = 0 /\ selects = EmptyBag)
  /\ [][DbInitDone(FALSE) =>
          proc' = "crashed" /\ ~Listening' /\ ws' = NoHandle]_vars
  /\ [][((~Listening /\ Listening') \/ (ws = NoHandle /\ ws' # NoHandle)) =>
          (DbInitDone(TRUE) /\ Listening' /\ ws' # NoHandle)]_vars

\* C19 witness: initializeDatabase has failed and the process has ended
\* without a connection and without a query served.
C19_Witness ==
  /\ proc = "crashed"
  /\ ws = NoHandle
  /\ queries = 0

\* ------------------------------------------ further claims on src/index.js

\* C20: a vessel that has an entry in the registry keeps an entry in every
\* later state: no step removes it, a reload from storage that completes
\* after reports were ingested included.
C20_EntryNeverRemoved ==
  [][\A i \in 1..Len(shipsData) :
       FindIndex(shipsData', shipsData[i].mmsi) # 0]_vars

\* C21: a connection that reaches the open state gets exactly one
\* handshake, sent by the open handler, so before any message of that
\* connection is handled; the handshake carries the bounding box that is
\* current then and the message-type filter PositionReport, and the same
\* handler sets isConnected and records the time in lastConnectionTimestamp.
C21_OneHandshakePerOpen ==
  /\ [][\A h \in Handles :
          OpenEvent(h) =>
            /\ sent'[h] = <<[BoundingBoxes |-> currentBoundingBox',
                             FilterMessageTypes |-> "PositionReport"]>>
            /\ connectionState'.isConnected
            /\ connectionState'.lastConnectionTimestamp = ToISOString(now')]_vars
  /\ [][\A h \in Handles :
          sent'[h] # sent[h] => (OpenEvent(h) \/ sent'[h] = <<>>)]_vars
  /\ [][\A h \in Handles, msg \in Messages :
          OnMessage(h, msg) => Len(sent[h]) = 1]_vars
  /\ [](\A h \in Handles :
          /\ hstate[h] = "connecting" => sent[h] = <<>>
          /\ hstate[h] \in {"open", "closing"} => Len(sent[h]) = 1)

\* C21 witness: the connection is open, its handshake was sent and a
\* report was ingested after it.
C21_Witness ==
  /\ ws # NoHandle
  /\ hstate[ws] = "open"
  /\ Len(sent[ws]) = 1
  /\ msgs = 1
  /\ connectionState.isConnected

\* C22: a message that decodes but has no Message.PositionReport leaves the
\* registry as it is and starts no storage write.
C22_NonReportIgnored ==
  [][\A h \in Handles, msg \in Messages :
       (msg.kind = "other" /\ OnMessage(h, msg)) =>
         /\ shipsData' = shipsData
         /\ puts' = puts
         /\ blob' = blob
         /\ proc' = proc]_vars

\* C22 witness: a message without a position report can be delivered on the
\* open connection while the registry holds a vessel and no write is
\* pending.
C22_Witness ==
  /\ Len(shipsData) = 1
  /\ puts = EmptyBag
  /\ blob = BlobOf(JSONStringify(shipsData))
  /\ ENABLED (\E h \in Handles : OnMessage(h, Blank("other")))

\* C23: ingestion enforces no order of timestamps: a report for a vessel in
\* the registry whose timestamp is older than the stored one is accepted
\* and overwrites the stored position and timestamp.
C23_OlderReportOverwrites ==
  [][\A h \in Handles, msg \in Reports :
       LET i == FindIndex(shipsData, msg.mmsi)
       IN (OnMessage(h, msg) /\ i # 0 /\ msg.time < shipsData[i].timestamp) =>
            /\ shipsData'[i].lat = msg.lat
            /\ shipsData'[i].lon = msg.lon
            /\ shipsData'[i].timestamp = msg.time]_vars

\* C23 witness: the write of a record of day 1 is pending and the registry
\* holds the same vessel with the position of day 0, after two reports.
C23_Witness ==
  /\ msgs = 2
  /\ Len(shipsData) = 1
  /\ shipsData[1].timestamp = 0
  /\ shipsData[1].lat = 10
  /\ \E body \in BagToSet(puts) :
       /\ Len(body) = 1
       /\ body[1].mmsi = shipsData[1].mmsi
       /\ body[1].timestamp = 1
       /\ body[1].lat = 11

\* C26: ConnectionState agrees with the current handle: isConnected is true
\* only while the handle in ws has had its open event and no close or error
\* event yet.
C26_ConnectedMeansOpen ==
  connectionState.isConnected => (ws # NoHandle /\ hstate[ws] = "open")

\* C26 witness: the connection was open and connected, it has failed, and
\* the reconnect has created a new handle that is still connecting.
C26_Witness ==
  /\ ~connectionState.isConnected
  /\ connectionState.lastConnectionTimestamp # NoTimestamp
  /\ ws # NoHandle
  /\ hstate[ws] = "connecting"

\* --------------- further claims on src/unnamed/part_000, lines 241-336

\* A handshake was sent on handle h in this step.
HandshakeSent(h) == Len(sent'[h]) = Len(sent[h]) + 1

\* C15: a valid update makes its box the active one and replaces the
\* current handle by a new one that is connecting; every handshake sent carries
\* the box that is active when it is sent, so none sent after the update
\* carries the old box; and a handshake with the new box is eventually sent
\* (unless a later update replaces the box first).
C15_NewBoxTakesEffect ==
  /\ [][\A b \in Bodies :
          (ValidBox(b) /\ UpdateBoundingBox(b)) =>
            /\ currentBoundingBox' = b.box
            /\ ws' # NoHandle
            /\ hstate'[ws'] = "connecting"
            /\ sent'[ws'] = <<>>]_vars
  /\ [][\A h \in Handles :
          HandshakeSent(h) =>
            sent'[h][Len(sent'[h])].BoundingBoxes = currentBoundingBox']_vars
  /\ \A box \in {b.box : b \in {c \in Bodies : ValidBox(c)}} :
       (currentBoundingBox = box)
         ~> \/ \E h \in Handles : \E i \in 1..Len(sent[h]) :
                 sent[h][i].BoundingBoxes = box
            \/ currentBoundingBox # box

\* C16: an update whose boundingBox is missing, is not an array or has not
\* two elements is answered with 400 and changes neither the active box nor
\* the current handle, any handle's state, or the pending reconnect timers.
C16_MalformedUpdateRejected ==
  [][\A b \in Bodies :
       (UpdateBoundingBox(b) /\ ~(b.present /\ b.isArray /\ b.len = 2)) =>
         /\ resp'.status = 400
         /\ UNCHANGED <<currentBoundingBox, ws, hstate, sent, timers>>]_vars

\* C16 witness: a malformed update was rejected while the connection is
\* lost and its reconnect timer is pending.
C16_Witness ==
  /\ resp.status = 400
  /\ timers = 1
  /\ ws # NoHandle
  /\ hstate[ws] = "closed"

\* C24: at most one reconnect timer is pending in every reachable state,
\* whatever the order of close events and bounding-box updates.
C24_OneReconnectTimer == timers <= 1

\* C25: after a bounding-box update, with a healthy upstream, the client
\* reconnects only finitely often and ends with a connection that stays
\* open; the reconnect timer that a close event armed never closes a
\* current handle that is connecting or open.
C25_SettlesAfterUpdate ==
  /\ <>(currentBoundingBox # "default") =>
       <>[](ws # NoHandle /\ hstate[ws] = "open")
  /\ [][BoxReconnectTimer => hstate[ws] \notin {"connecting", "open"}]_vars

\* ------------------- claims on src/unnamed/part_000, lines 1 to 240

\* Record r passes the filters of query q: the mmsi when it is given, and
\* every range of which all bounds are given, bounds included.
Matches(r, q) ==
  /\ q.mmsi # Absent => r.mmsi = q.mmsi
  /\ (q.latMin # Absent /\ q.latMax # Absent /\ q.lonMin # Absent /\ q.lonMax # Absent)
       => /\ q.latMin <= r.lat /\ r.lat <= q.latMax
          /\ q.lonMin <= r.lon /\ r.lon <= q.lonMax
  /\ (q.speedMin # Absent /\ q.speedMax # Absent)
       => q.speedMin <= r.speed /\ r.speed <= q.speedMax
  /\ (q.courseMin # Absent /\ q.courseMax # Absent)
       => q.courseMin <= r.course /\ r.course <= q.courseMax
  /\ (q.timestampMin # Absent /\ q.timestampMax # Absent)
       => q.timestampMin <= r.timestamp /\ r.timestamp <= q.timestampMax

\* Response rsp counts and pages exactly the records of s that match q.
Answers(rsp, s, q) ==
  LET expected == SelectSeq(s, LAMBDA r : Matches(r, q))
  IN /\ rsp.status = 200
     /\ rsp.totalResults = Len(expected)
     /\ rsp.data = Slice(expected, (PageOf(q) - 1) * LimitOf(q),
                         PageOf(q) * LimitOf(q))

\* C12: the filtered set of a query is exactly the set of records that
\* match the mmsi (when given) and lie within every applied range, bounds
\* included; a bound of 0 is a bound.  Every response of the handler, sent
\* at once or after the reload, counts and pages that set.
C12_FilteredSetExact ==
  /\ [][\A q \in Queries :
          (FilterGetShips(q) /\ Len(shipsData) # 0) =>
            Answers(resp', shipsData, q)]_vars
  /\ [][\A l \in BagToSet(loads) :
          (l.origin = "query" /\ FilterLoadDone(l)) =>
            Answers(resp', shipsData', l.q)]_vars

\* C12 witness: the registry holds two vessels, one of them with speed 0,
\* and a response has returned that vessel alone.
C12_Witness ==
  /\ Len(shipsData) = 2
  /\ resp.status = 200
  /\ resp.totalResults = 1
  /\ Len(resp.data) = 1
  /\ resp.data[1].mmsi = 222
  /\ resp.data[1].speed = 0

\* ---------------- claims on src/unnamed/part_001, lines 301 to 439

\* C27: durable storage never ends in an older registry: whenever reports
\* were ingested and no write is outstanding, the file holds the latest
\* registry, whatever the order in which the writes completed.
C27_StorageNeverRegresses ==
  (proc = "running" /\ msgs > 0 /\ puts = EmptyBag)
    => blob = BlobOf(JSONStringify(shipsData))

TypeOK ==
  /\ proc \in {"init", "initializing", "running", "crashed", "exited"}
  /\ ws \in Handles \cup {NoHandle}
  /\ \A h \in Handles : hstate[h] \in HStates
  /\ timers \in Nat
  /\ now \in Clock

====
